---- MODULE Spec2Model ----
(***************************************************************************)
(* Model of the IPL dashboard (src/app.py): a Streamlit script that is     *)
(* executed top to bottom on every page (re)run.  One execution loads the  *)
(* two tables through the memoized load_data, resolves the five sidebar    *)
(* select boxes, and computes every aggregate the page shows.              *)
(*                                                                         *)
(* Encoding.  Seasons, teams, players, match ids, runs and margins are     *)
(* integers (names are encoded by their rank in lexicographic order, so    *)
(* Python's sorted() is the numeric order).  A missing value (pandas NaN,  *)
(* Python None) of an integer column is NaN; of a text column (result,     *)
(* dismissal_kind) it is the string NaNText.  A strike rate is held in     *)
(* hundredths (15000 is 150.00).                                           *)
(***************************************************************************)
EXTENDS Integers, Sequences, FiniteSets, TLC

VARIABLES
    files,            \* the set of CSV files that exist on disk right now
    matches_csv,      \* rows of matches.csv
    deliveries_csv,   \* rows of deliveries.csv
    cache_data,       \* the st.cache_data memo of load_data
    reads,            \* how many times load_data's body has read the files
    tie,              \* the library's order among equal sort keys
    view              \* what the last execution of the script produced

vars == <<files, matches_csv, deliveries_csv, cache_data, reads, tie, view>>

NaN == -1
NaNText == "NaN"

MatchesFile == "matches.csv"
DeliveriesFile == "deliveries.csv"
RequiredFiles == {MatchesFile, DeliveriesFile}

\* The two orders a sort may leave equal keys in: as they came, or reversed.
TieOrders == {"stable", "reversed"}

----------------------------------------------------------------------------
(* Sequence helpers standing for the dataframe primitives the script uses. *)

Range(s) == {s[i] : i \in DOMAIN s}

Min(a, b) == IF a <= b THEN a ELSE b

RECURSIVE SortedSeq(_)
\* sorted(S): the elements of a finite set of integers, ascending
SortedSeq(S) ==
    IF S = {} THEN <<>>
    ELSE LET m == CHOOSE x \in S : \A y \in S : x <= y
         IN  <<m>> \o SortedSeq(S \ {m})

\* series.dropna()
dropna(s) == SelectSeq(s, LAMBDA x : x # NaN)

RECURSIVE unique(_)
\* series.unique(): distinct values in order of first appearance
unique(s) ==
    IF s = <<>> THEN <<>>
    ELSE LET front == unique(SubSeq(s, 1, Len(s) - 1))
             x == s[Len(s)]
         IN  IF x \in Range(front) THEN front ELSE Append(front, x)

\* frame[column]
Column(rows, c) == [i \in DOMAIN rows |-> rows[i][c]]

RECURSIVE SumSeq(_)
\* series.sum()
SumSeq(s) == IF s = <<>> THEN 0 ELSE s[Len(s)] + SumSeq(SubSeq(s, 1, Len(s) - 1))

\* How many entries of s equal x.
CountOf(s, x) == Cardinality({i \in DOMAIN s : s[i] = x})

\* Insert the pair p = <<key, value>> into a list sorted by value, descending.
InsertDesc(sorted, p, t) ==
    LET n == IF t = "stable"
             THEN Cardinality({i \in DOMAIN sorted : sorted[i][2] >= p[2]})
             ELSE Cardinality({i \in DOMAIN sorted : sorted[i][2] > p[2]})
    IN  SubSeq(sorted, 1, n) \o <<p>> \o SubSeq(sorted, n + 1, Len(sorted))

RECURSIVE sort_values_desc(_, _)
\* series.sort_values(ascending=False) on a list of <<key, value>> pairs
sort_values_desc(pairs, t) ==
    IF pairs = <<>> THEN <<>>
    ELSE InsertDesc(sort_values_desc(SubSeq(pairs, 1, Len(pairs) - 1), t),
                    pairs[Len(pairs)], t)

\* Mutant: one entry too many is kept.
head_one_more(s, n) == SubSeq(s, 1, Min(n + 1, Len(s)))

\* series.head(n)
head(s, n) == SubSeq(s, 1, Min(n, Len(s)))

\* series.value_counts(): count per distinct non-null value, largest first
value_counts(s, t) ==
    LET keys == unique(dropna(s))
    IN  sort_values_desc([k \in DOMAIN keys |-> <<keys[k], CountOf(s, keys[k])>>], t)

\* frame.groupby(key)[val].sum(): one <<key, sum>> per non-null key, keys ascending
groupby_sum(rows, key, val) ==
    LET keys == SortedSeq(Range(dropna(Column(rows, key))))
    IN  [k \in DOMAIN keys |->
            <<keys[k],
              SumSeq(Column(SelectSeq(rows, LAMBDA r : r[key] = keys[k]), val))>>]

----------------------------------------------------------------------------
(* The sidebar: season filter and the select boxes' choice lists.          *)

\* sorted(matches_df["season"].unique())
all_seasons(m) == SortedSeq(Range(Column(m, "season")))

\* matches_df[matches_df["season"] == selected_season]; NaN equals nothing
season_matches(m, s) == SelectSeq(m, LAMBDA r : r.season # NaN /\ r.season = s)

\* season_matches["id"].unique()
season_match_ids(sm) == unique(Column(sm, "id"))

\* Mutant: the deliveries are not narrowed to the season's matches.
season_deliveries_unfiltered(d, ids) == d

\* deliveries_df[deliveries_df["match_id"].isin(season_match_ids)]
season_deliveries(d, ids) == SelectSeq(d, LAMBDA r : r.match_id \in Range(ids))

\* sorted(season_deliveries["batter"].dropna().unique())
batters(sd) == SortedSeq(Range(dropna(Column(sd, "batter"))))

\* sorted(season_deliveries["bowler"].dropna().unique())
bowlers(sd) == SortedSeq(Range(dropna(Column(sd, "bowler"))))

\* sorted(matches_df["team1"].dropna().unique())
teams(m) == SortedSeq(Range(dropna(Column(m, "team1"))))

\* st.selectbox(label, options): None when there is nothing to choose from;
\* the session's value while the same options are shown again; else the
\* first option (a select box whose options changed is a new widget).
selectbox(options, shown, value) ==
    IF options = <<>> THEN NaN
    ELSE IF options = shown /\ value \in Range(options) THEN value
    ELSE options[1]

----------------------------------------------------------------------------
(* Top performers and leaderboards.                                        *)

TopPerformers == 5
Leaders == 10

\* The dismissal kinds that are not credited to the bowler.
NotCredited == {"run out", "retired hurt", "obstructing the field"}

\* season_deliveries.groupby("batter")["batsman_runs"].sum()
\*     .sort_values(ascending=False).head(n)
top_batsmen(sd, n, t) ==
    head(sort_values_desc(groupby_sum(sd, "batter", "batsman_runs"), t), n)

\* Mutant: every dismissal counts, run outs and retirements included.
wickets_df_any_dismissal(sd) == SelectSeq(sd, LAMBDA r : r.dismissal_kind # NaNText)

\* the deliveries on which a wicket is credited to the bowler
wickets_df(sd) ==
    SelectSeq(SelectSeq(sd, LAMBDA r : r.dismissal_kind # NaNText),
              LAMBDA r : r.dismissal_kind \notin NotCredited)

\* wickets_df["bowler"].value_counts().head(5)
top_bowlers(w, t) == head(value_counts(Column(w, "bowler"), t), TopPerformers)

\* season_matches["player_of_match"].value_counts().head(5)
top_mom(sm, t) == head(value_counts(Column(sm, "player_of_match"), t), TopPerformers)

\* season_deliveries[season_deliveries["batsman_runs"] == 6]["batter"]
\*     .value_counts().head(10)
most_sixes(sd, t) ==
    head(value_counts(Column(SelectSeq(sd, LAMBDA r : r.batsman_runs = 6), "batter"), t),
         Leaders)

\* wickets_df["bowler"].value_counts().head(10)
top_wickets(w, t) == head(value_counts(Column(w, "bowler"), t), Leaders)

\* season_deliveries[season_deliveries["total_runs"] == 0]
dot_balls(sd) == SelectSeq(sd, LAMBDA r : r.total_runs = 0)

\* dot_balls["bowler"].value_counts().head(10)
dot_bowlers(sd, t) == head(value_counts(Column(dot_balls(sd), "bowler"), t), Leaders)

----------------------------------------------------------------------------
(* Player vs player.                                                       *)

\* season_deliveries[(batter == selected_batsman) & (bowler == selected_bowler)]
pvp_df(sd, bat, bowl) ==
    SelectSeq(sd, LAMBDA r : /\ r.batter # NaN /\ r.batter = bat
                             /\ r.bowler # NaN /\ r.bowler = bowl)

\* Mutant: the strike rate is cut to two decimals instead of rounded.
round2_truncating(runs, balls) == (runs * 10000) \div balls

\* round(x, 2) of x = (runs / balls) * 100, in hundredths: the nearest
\* hundredth, an exact half going to the even neighbour
round2(runs, balls) ==
    LET q == (runs * 10000) \div balls
        r == (runs * 10000) % balls
    IN  IF 2 * r > balls \/ (2 * r = balls /\ q % 2 = 1) THEN q + 1 ELSE q

\* round((runs / balls) * 100, 2) if balls > 0 else 0
strike_rate(runs, balls) == IF balls > 0 THEN round2(runs, balls) ELSE 0

\* The player-vs-player block: a warning when pvp_df is empty, else the metrics.
pvp(sd, bat, bowl) ==
    LET df == pvp_df(sd, bat, bowl)
        runs == SumSeq(Column(df, "batsman_runs"))
        balls == Len(df)
    IN  IF df = <<>>
        THEN [warning |-> TRUE]
        ELSE [warning |-> FALSE,
              runs |-> runs,
              balls |-> balls,
              dismissals |-> Len(SelectSeq(df, LAMBDA r : r.player_dismissed # NaN
                                                 /\ r.player_dismissed = bat)),
              strike_rate |-> strike_rate(runs, balls),
              fours |-> CountOf(Column(df, "batsman_runs"), 4),
              sixes |-> CountOf(Column(df, "batsman_runs"), 6)]

----------------------------------------------------------------------------
(* Head to head.                                                           *)

\* Mutant: only the matches listed as a against b, not those listed b against a.
h2h_df_one_order(m, a, b) == SelectSeq(m, LAMBDA r : r.team1 = a /\ r.team2 = b)

\* matches_df[((team1 == a) & (team2 == b)) | ((team1 == b) & (team2 == a))]
h2h_df(m, a, b) ==
    SelectSeq(m, LAMBDA r : \/ (r.team1 = a /\ r.team2 = b)
                            \/ (r.team1 = b /\ r.team2 = a))

\* Mutant: the record is computed without the check that the teams differ.
h2h_unguarded(m, a, b) ==
    LET df == h2h_df(m, a, b)
        total == Len(df)
        t1_wins == Len(SelectSeq(df, LAMBDA r : r.winner = a))
        t2_wins == Len(SelectSeq(df, LAMBDA r : r.winner = b))
    IN  [warning |-> FALSE, total |-> total, t1_wins |-> t1_wins,
         t2_wins |-> t2_wins, ties |-> total - t1_wins - t2_wins]

\* Mutant: the wins are counted over all matches, not over the head-to-head ones.
h2h_wins_anywhere(m, a, b) ==
    IF a # b
    THEN LET total == Len(h2h_df(m, a, b))
             t1_wins == Len(SelectSeq(m, LAMBDA r : r.winner = a))
             t2_wins == Len(SelectSeq(m, LAMBDA r : r.winner = b))
         IN  [warning |-> FALSE, total |-> total, t1_wins |-> t1_wins,
              t2_wins |-> t2_wins, ties |-> total - t1_wins - t2_wins]
    ELSE [warning |-> TRUE]

\* The head-to-head block: the record when the teams differ, else a warning.
h2h(m, a, b) ==
    IF a # b
    THEN LET df == h2h_df(m, a, b)
             total == Len(df)
             t1_wins == Len(SelectSeq(df, LAMBDA r : r.winner = a))
             t2_wins == Len(SelectSeq(df, LAMBDA r : r.winner = b))
         IN  [warning |-> FALSE,
              total |-> total,
              t1_wins |-> t1_wins,
              t2_wins |-> t2_wins,
              ties |-> total - t1_wins - t2_wins]
    ELSE [warning |-> TRUE]

----------------------------------------------------------------------------
(* Thriller of the season.                                                 *)

\* Mutant: the margins are sorted descending.
MarginBefore_descending(x, y) == x # NaN /\ (y = NaN \/ x > y)

\* Whether margin x sorts before margin y, ascending, NaN last.
MarginBefore(x, y) == x # NaN /\ (y = NaN \/ x < y)

\* Insert row p into a list sorted by result_margin, ascending, NaN last.
InsertAsc(sorted, p, t) ==
    LET n == IF t = "stable"
             THEN Cardinality({i \in DOMAIN sorted :
                                 ~MarginBefore(p.result_margin, sorted[i].result_margin)})
             ELSE Cardinality({i \in DOMAIN sorted :
                                 MarginBefore(sorted[i].result_margin, p.result_margin)})
    IN  SubSeq(sorted, 1, n) \o <<p>> \o SubSeq(sorted, n + 1, Len(sorted))

RECURSIVE sort_values_margin(_, _)
\* frame.sort_values(by="result_margin")
sort_values_margin(rows, t) ==
    IF rows = <<>> THEN <<>>
    ELSE InsertAsc(sort_values_margin(SubSeq(rows, 1, Len(rows) - 1), t),
                   rows[Len(rows)], t)

\* season_matches[season_matches["result"] == "normal"].sort_values(by="result_margin")
thrillers(sm, t) ==
    sort_values_margin(SelectSeq(sm, LAMBDA r : r.result = "normal"), t)

\* thrillers.iloc[0] when there is one, else the "no close match" notice
thriller(sm, t) ==
    LET th == thrillers(sm, t)
    IN  IF th # <<>> THEN [found |-> TRUE, match |-> th[1]] ELSE [found |-> FALSE]

----------------------------------------------------------------------------
(* One execution of the script, and the memoized loader.                   *)

\* What an execution that load_data stopped leaves behind: the error only.
Halted == [status |-> "halted"]

\* Before the page has been opened.
NotRun == [status |-> "none"]

\* The session's widget values: what the last shown page had selected.
Widgets ==
    IF view.status = "shown"
    THEN [season |-> view.selected_season,
          batsman |-> view.selected_batsman,
          bowler |-> view.selected_bowler,
          team1 |-> view.team1,
          team2 |-> view.team2,
          all_seasons |-> view.all_seasons,
          batters |-> view.batters,
          bowlers |-> view.bowlers,
          teams |-> view.teams]
    ELSE [season |-> NaN, batsman |-> NaN, bowler |-> NaN, team1 |-> NaN,
          team2 |-> NaN, all_seasons |-> <<>>, batters |-> <<>>,
          bowlers |-> <<>>, teams |-> <<>>]

\* The script below load_data, on tables m and d with widget values w.
Script(m, d, w, t) ==
    LET seasons == all_seasons(m)
        season == selectbox(seasons, w.all_seasons, w.season)
        sm == season_matches(m, season)
        sd == season_deliveries(d, season_match_ids(sm))
        bats == batters(sd)
        bowls == bowlers(sd)
        bat == selectbox(bats, w.batters, w.batsman)
        bowl == selectbox(bowls, w.bowlers, w.bowler)
        tms == teams(m)
        a == selectbox(tms, w.teams, w.team1)
        b == selectbox(tms, w.teams, w.team2)
        w_df == wickets_df(sd)
    IN  [status |-> "shown",
         all_seasons |-> seasons,
         selected_season |-> season,
         season_matches |-> sm,
         season_deliveries |-> sd,
         batters |-> bats,
         bowlers |-> bowls,
         selected_batsman |-> bat,
         selected_bowler |-> bowl,
         teams |-> tms,
         team1 |-> a,
         team2 |-> b,
         top_batsmen |-> top_batsmen(sd, TopPerformers, t),
         top_bowlers |-> top_bowlers(w_df, t),
         top_mom |-> top_mom(sm, t),
         pvp |-> pvp(sd, bat, bowl),
         h2h |-> h2h(m, a, b),
         thriller |-> thriller(sm, t),
         top_batsmen_10 |-> top_batsmen(sd, Leaders, t),
         most_sixes |-> most_sixes(sd, t),
         top_wickets |-> top_wickets(w_df, t),
         dot_bowlers |-> dot_bowlers(sd, t)]

\* not os.path.exists("matches.csv") or not os.path.exists("deliveries.csv")
files_missing(fs) == MatchesFile \notin fs \/ DeliveriesFile \notin fs

\* Mutant: load_data is not memoized, every call runs the body.
cache_miss_always(c) == TRUE

\* Whether a call of load_data runs the function body: only on a memo miss.
cache_miss(c) == ~c.loaded

\* Whether load_data's body ends in st.error and st.stop.
load_stops(c, fs) == cache_miss(c) /\ files_missing(fs)

\* The memo after a call of load_data: a stopped call stores nothing.
load_data(c, fs, mcsv, dcsv) ==
    IF cache_miss(c) /\ ~files_missing(fs)
    THEN [loaded |-> TRUE, matches |-> mcsv, deliveries |-> dcsv]
    ELSE c

\* One execution of app.py with the session's widget values w.
Run(w) ==
    LET c == load_data(cache_data, files, matches_csv, deliveries_csv)
    IN  /\ cache_data' = c
        /\ reads' = IF cache_miss(cache_data) /\ ~files_missing(files)
                    THEN reads + 1 ELSE reads
        /\ view' = IF load_stops(cache_data, files)
                   THEN Halted
                   ELSE Script(c.matches, c.deliveries, w, tie)
        /\ UNCHANGED <<files, matches_csv, deliveries_csv, tie>>

----------------------------------------------------------------------------
(* Actions.                                                                *)

\* The page is opened, or re-run with nothing changed.
Rerun == Run(Widgets)

\* The user picks another season.
SelectSeason ==
    /\ view.status = "shown"
    /\ \E s \in Range(view.all_seasons) \ {view.selected_season} :
          Run([Widgets EXCEPT !.season = s])

\* The user picks another batsman.
SelectBatsman ==
    /\ view.status = "shown"
    /\ \E x \in Range(view.batters) \ {view.selected_batsman} :
          Run([Widgets EXCEPT !.batsman = x])

\* The user picks another bowler.
SelectBowler ==
    /\ view.status = "shown"
    /\ \E x \in Range(view.bowlers) \ {view.selected_bowler} :
          Run([Widgets EXCEPT !.bowler = x])

\* The user picks another Team A.
SelectTeamA ==
    /\ view.status = "shown"
    /\ \E x \in Range(view.teams) \ {view.team1} :
          Run([Widgets EXCEPT !.team1 = x])

\* The user picks another Team B.
SelectTeamB ==
    /\ view.status = "shown"
    /\ \E x \in Range(view.teams) \ {view.team2} :
          Run([Widgets EXCEPT !.team2 = x])

\* A CSV file disappears from the directory.
RemoveFile ==
    /\ \E f \in files : files' = files \ {f}
    /\ UNCHANGED <<matches_csv, deliveries_csv, cache_data, reads, tie, view>>

\* A CSV file is put (back) into the directory, with the same content.
RestoreFile ==
    /\ \E f \in RequiredFiles \ files : files' = files \cup {f}
    /\ UNCHANGED <<matches_csv, deliveries_csv, cache_data, reads, tie, view>>

Next ==
    \/ Rerun
    \/ SelectSeason
    \/ SelectBatsman
    \/ SelectBowler
    \/ SelectTeamA
    \/ SelectTeamB
    \/ RemoveFile
    \/ RestoreFile

----------------------------------------------------------------------------
(* Initial states: the files' contents are drawn from bounded sets of rows. *)

MaxMatches == 2
MaxDeliveries == 2

\* A match row with the columns the script reads; its id is its row number.
DefaultMatch ==
    [season |-> 2020, team1 |-> 1, team2 |-> 2, winner |-> 1, result |-> "normal",
     result_margin |-> 5, player_of_match |-> 1]

DefaultDelivery ==
    [match_id |-> 1, batter |-> 1, bowler |-> 1, batsman_runs |-> 1, total_runs |-> 1,
     dismissal_kind |-> NaNText, player_dismissed |-> NaN]

\* Every table of at most n rows drawn from rows.
Tables(rows, n) == UNION {[1..k -> rows] : k \in 0..n}

\* Match tables: ids are unique, here the row numbers.
MatchTables(rows, n) ==
    {[i \in DOMAIN f |-> [id |-> i] @@ f[i]] : f \in Tables(rows, n)}

InitWith(mts, dts, ties) ==
    /\ files = RequiredFiles
    /\ matches_csv \in mts
    /\ deliveries_csv \in dts
    /\ cache_data = [loaded |-> FALSE]
    /\ reads = 0
    /\ tie \in ties
    /\ view = NotRun

\* One match, and one match in each of two seasons.
OneMatch == <<[id |-> 1] @@ DefaultMatch>>

TwoSeasonMatches ==
    <<[id |-> 1] @@ DefaultMatch,
      [id |-> 2] @@ [DefaultMatch EXCEPT !.season = 2019]>>

\* Deliveries of match 1 with two batters and two bowlers.
TwoPlayerDeliveries ==
    <<DefaultDelivery, [DefaultDelivery EXCEPT !.batter = 2, !.bowler = 2]>>

\* A small page on which every select box has two options: two seasons, two
\* teams, two batters and two bowlers.
InitSmall ==
    InitWith({<<[id |-> 1] @@ DefaultMatch,
                [id |-> 2] @@ [DefaultMatch EXCEPT !.season = 2019, !.team1 = 2,
                                                   !.team2 = 1]>>},
             {TwoPlayerDeliveries}, {"stable"})

\* Season filter: matches of two seasons, deliveries of matches 1..3 (match 3
\* never exists, so some deliveries reference no match).
SeasonMatchRows ==
    {[DefaultMatch EXCEPT !.season = 2019], DefaultMatch}

SeasonDeliveryRows ==
    {[DefaultDelivery EXCEPT !.match_id = 1],
     [DefaultDelivery EXCEPT !.match_id = 2, !.batter = 2],
     [DefaultDelivery EXCEPT !.match_id = 2, !.bowler = 2],
     [DefaultDelivery EXCEPT !.match_id = 3, !.batter = 2, !.bowler = 2]}

Init ==
    \/ InitWith(MatchTables(SeasonMatchRows, MaxMatches),
                Tables(SeasonDeliveryRows, MaxDeliveries), {"stable"})
    \/ InitSmall

Spec == Init /\ [][Next]_vars

\* Head to head: three teams over two seasons; team 3 is never listed as
\* team1; a winner may be missing (no result) or a team outside the pair.
TeamMatchRows ==
    {[DefaultMatch EXCEPT !.season = 2019, !.team1 = 1, !.team2 = 2, !.winner = 1],
     [DefaultMatch EXCEPT !.season = 2019, !.team1 = 2, !.team2 = 1, !.winner = 2],
     [DefaultMatch EXCEPT !.season = 2019, !.team1 = 2, !.team2 = 1, !.winner = 3],
     [DefaultMatch EXCEPT !.season = 2020, !.team1 = 1, !.team2 = 2, !.winner = NaN],
     [DefaultMatch EXCEPT !.season = 2020, !.team1 = 2, !.team2 = 1, !.winner = 1],
     [DefaultMatch EXCEPT !.season = 2020, !.team1 = 1, !.team2 = 3, !.winner = 1]}

InitTeams ==
    \/ InitWith(MatchTables(TeamMatchRows, MaxMatches), {<<DefaultDelivery>>},
                {"stable"})
    \/ InitSmall

SpecTeams == InitTeams /\ [][Next]_vars

\* Wickets: two bowlers, every kind of dismissal the script tells apart, a
\* delivery without a bowler, and a wicket in the other season.
WicketDeliveryRows ==
    {[DefaultDelivery EXCEPT !.dismissal_kind = "bowled", !.player_dismissed = 1],
     [DefaultDelivery EXCEPT !.dismissal_kind = "run out", !.player_dismissed = 1],
     [DefaultDelivery EXCEPT !.dismissal_kind = "obstructing the field",
                             !.player_dismissed = 1],
     [DefaultDelivery EXCEPT !.bowler = 2, !.batter = 2, !.dismissal_kind = "caught",
                             !.player_dismissed = 2],
     [DefaultDelivery EXCEPT !.bowler = 2, !.batter = 2,
                             !.dismissal_kind = "retired hurt", !.player_dismissed = 2],
     [DefaultDelivery EXCEPT !.bowler = 2],
     [DefaultDelivery EXCEPT !.bowler = NaN, !.dismissal_kind = "bowled",
                             !.player_dismissed = 1],
     [DefaultDelivery EXCEPT !.match_id = 2, !.dismissal_kind = "bowled",
                             !.player_dismissed = 1]}

InitWickets ==
    \/ InitWith({TwoSeasonMatches}, Tables(WicketDeliveryRows, MaxDeliveries),
                {"stable"})
    \/ InitSmall

SpecWickets == InitWickets /\ [][Next]_vars

PvPDeliveries == 4

\* Player vs player: batter 1 facing bowler 1 for 1, 2 or 4 runs, and
\* batter 2 facing bowler 2, so that a batsman and a bowler who never met can
\* be selected.
PvPDeliveryRows ==
    {[DefaultDelivery EXCEPT !.batsman_runs = 1],
     [DefaultDelivery EXCEPT !.batsman_runs = 2, !.total_runs = 2],
     [DefaultDelivery EXCEPT !.batsman_runs = 4, !.total_runs = 4],
     [DefaultDelivery EXCEPT !.batter = 2, !.bowler = 2]}

InitPvP ==
    \/ InitWith({OneMatch}, Tables(PvPDeliveryRows, PvPDeliveries), {"stable"})
    \/ InitSmall

SpecPvP == InitPvP /\ [][Next]_vars

ThrillerMatches == 3

\* Thriller: normal results with margins 2, 5 and 9, a normal result without
\* a margin, a tie, and a closer match in the other season.
ThrillerMatchRows ==
    {[DefaultMatch EXCEPT !.result_margin = 5],
     [DefaultMatch EXCEPT !.result_margin = 2],
     [DefaultMatch EXCEPT !.result_margin = 9],
     [DefaultMatch EXCEPT !.result_margin = NaN],
     [DefaultMatch EXCEPT !.result = "tie", !.result_margin = NaN, !.winner = NaN],
     [DefaultMatch EXCEPT !.season = 2019, !.result_margin = 1]}

InitThriller ==
    \/ InitWith(MatchTables(ThrillerMatchRows, ThrillerMatches), {<<DefaultDelivery>>},
                TieOrders)
    \/ InitSmall

SpecThriller == InitThriller /\ [][Next]_vars

RankGroups == 11

\* Rankings: more players than a leaderboard has places.  Every one of
\* RankGroups players has one delivery (or one award); one more delivery (or
\* award), first or last in the table, goes to one of them or to a further
\* player.
SixBy(i) == [DefaultDelivery EXCEPT !.batter = i, !.batsman_runs = 6, !.total_runs = 6]

WicketBy(i) ==
    [DefaultDelivery EXCEPT !.bowler = i, !.batsman_runs = 0, !.total_runs = 0,
                            !.dismissal_kind = "bowled", !.player_dismissed = 1]

AwardTo(i) == [DefaultMatch EXCEPT !.player_of_match = i]

\* The tables made of base and one further row, put first or last.
WithOneMore(base, more) ==
    {base \o <<x>> : x \in more} \cup {<<x>> \o base : x \in more}

\* Who gets the further row: the first player, the last, or a new one.
OneMoreFor == {1, RankGroups, RankGroups + 1}

BattingTables ==
    WithOneMore([i \in 1..RankGroups |-> SixBy(i)], {SixBy(x) : x \in OneMoreFor})

BowlingTables ==
    WithOneMore([i \in 1..RankGroups |-> WicketBy(i)], {WicketBy(x) : x \in OneMoreFor})

AwardTables ==
    {[i \in DOMAIN f |-> [id |-> i] @@ f[i]] :
        f \in WithOneMore([i \in 1..RankGroups |-> AwardTo(i)],
                          {AwardTo(x) : x \in OneMoreFor})}

InitRank ==
    \/ InitWith({OneMatch}, BattingTables, TieOrders)
    \/ InitWith({OneMatch}, BowlingTables, TieOrders)
    \/ InitWith(AwardTables, {<<DefaultDelivery>>}, TieOrders)
    \/ InitSmall

SpecRank == InitRank /\ [][Next]_vars

----------------------------------------------------------------------------
(* Properties.                                                             *)

Shown == view.status = "shown"

\* The loaded tables the shown page was computed from.
matches_df == cache_data.matches
deliveries_df == cache_data.deliveries

\* C1: on every shown page, season_matches holds exactly the match rows of
\* the selected season (each of its rows has that season, and every match row
\* of that season is in it, once), and every row of season_deliveries has the
\* id of a row of season_matches as its match_id.
C1_SeasonSubsets ==
    Shown =>
        LET S == view.selected_season
            sm == view.season_matches
            sd == view.season_deliveries
        IN  /\ \A i \in DOMAIN sm : sm[i].season = S /\ sm[i] \in Range(matches_df)
            /\ \A r \in Range(matches_df) : r.season = S => r \in Range(sm)
            /\ Len(sm) = Cardinality({i \in DOMAIN matches_df : matches_df[i].season = S})
            /\ \A i \in DOMAIN sd : \E j \in DOMAIN sm : sm[j].id = sd[i].match_id

\* C1 witness: a season other than the default one has been selected, it has
\* a match and a delivery, and the tables hold a match of another season and
\* a delivery that is left out.
C1_Witness ==
    /\ Shown
    /\ Len(view.all_seasons) >= 2
    /\ view.selected_season # view.all_seasons[1]
    /\ view.season_matches # <<>>
    /\ view.season_deliveries # <<>>
    /\ Len(view.season_matches) < Len(matches_df)
    /\ Len(view.season_deliveries) < Len(deliveries_df)

\* C9, state part: a halted execution leaves no memo and no page; a memo
\* holds both whole tables; a page is only shown from the memo; the files are
\* read at most once, exactly when the memo is filled.
C9_LoadState ==
    /\ view.status = "halted" => ~cache_data.loaded
    /\ view.status = "halted" => DOMAIN view = {"status"}
    /\ cache_data.loaded =>
          cache_data.matches = matches_csv /\ cache_data.deliveries = deliveries_csv
    /\ Shown => cache_data.loaded
    /\ reads <= 1
    /\ cache_data.loaded <=> reads = 1

\* C9, step part: an execution (a step that leaves the files alone) with a
\* file missing and no memo halts and stores nothing; any other execution
\* shows the page, and with a memo it neither reads the files nor changes it.
C9_LoadStep ==
    files' = files =>
        IF ~cache_data.loaded /\ (MatchesFile \notin files \/ DeliveriesFile \notin files)
        THEN view'.status = "halted" /\ cache_data' = cache_data /\ reads' = reads
        ELSE /\ view'.status = "shown"
             /\ cache_data'.loaded
             /\ cache_data.loaded => cache_data' = cache_data /\ reads' = reads

\* C9: a missing file at load time halts the execution with nothing computed
\* and nothing memoized; with both files present the tables are memoized and
\* later executions reuse the memo without reading the files again.
C9_LoadOrHalt == []C9_LoadState /\ [][C9_LoadStep]_vars

\* C9 witness: an execution has halted on a missing file.
C9_Witness ==
    /\ view.status = "halted"
    /\ files # RequiredFiles
    /\ ~cache_data.loaded
    /\ reads = 0

\* The match rows, of every season, played between teams a and b.
Between(a, b) ==
    {i \in DOMAIN matches_df : {matches_df[i].team1, matches_df[i].team2} = {a, b}}

\* Those of them that belong to the selected season.
BetweenInSeason(a, b) ==
    {i \in Between(a, b) : matches_df[i].season = view.selected_season}

\* The original statement of C4: the head-to-head record counts only the
\* matches of the selected season.
C4_SeasonOnly ==
    (Shown /\ ~view.h2h.warning) =>
        LET A == view.team1
            B == view.team2
            rows == BetweenInSeason(A, B)
        IN  /\ view.h2h.total = Cardinality(rows)
            /\ view.h2h.t1_wins = Cardinality({i \in rows : matches_df[i].winner = A})
            /\ view.h2h.t2_wins = Cardinality({i \in rows : matches_df[i].winner = B})

\* C4 as amended, state part: the record counts the matches between the two
\* teams in every season of the table.
C4_AllSeasonsState ==
    (Shown /\ ~view.h2h.warning) =>
        LET A == view.team1
            B == view.team2
            rows == Between(A, B)
        IN  /\ view.h2h.total = Cardinality(rows)
            /\ view.h2h.t1_wins = Cardinality({i \in rows : matches_df[i].winner = A})
            /\ view.h2h.t2_wins = Cardinality({i \in rows : matches_df[i].winner = B})

\* C4 as amended, step part: while the two teams stay selected, no step (a
\* change of season included) changes the record.
C4_AllSeasonsStep ==
    (Shown /\ view'.status = "shown" /\ view'.team1 = view.team1
        /\ view'.team2 = view.team2) => view'.h2h = view.h2h

\* C4 (amended): the head-to-head record between Team A and Team B is
\* computed across the matches of all seasons; the selected season does not
\* enter it, so changing the season never changes the record.
C4_AllSeasons == []C4_AllSeasonsState /\ [][C4_AllSeasonsStep]_vars

\* C4 witness: a record is shown that counts a match of a season other than
\* the selected one.
C4_Witness ==
    /\ Shown
    /\ ~view.h2h.warning
    /\ view.h2h.total > Cardinality(BetweenInSeason(view.team1, view.team2))
    /\ Cardinality(BetweenInSeason(view.team1, view.team2)) > 0

\* C5: for distinct selected teams the three counts partition the
\* head-to-head matches: t1_wins + t2_wins + ties = total, total is the number
\* of match rows whose teams are A and B in either order, and ties is the
\* number of those rows whose winner is neither A nor B (a missing winner
\* included), hence not negative.
C5_Partition ==
    (Shown /\ view.team1 # view.team2) =>
        LET A == view.team1
            B == view.team2
            rows == {i \in DOMAIN matches_df :
                        \/ matches_df[i].team1 = A /\ matches_df[i].team2 = B
                        \/ matches_df[i].team1 = B /\ matches_df[i].team2 = A}
        IN  /\ view.h2h.t1_wins + view.h2h.t2_wins + view.h2h.ties = view.h2h.total
            /\ view.h2h.total = Cardinality(rows)
            /\ view.h2h.ties >= 0
            /\ view.h2h.ties =
                  Cardinality({i \in rows : matches_df[i].winner \notin {A, B}})

\* C5 witness: a record with a win for each side that is not the only kind of
\* result: a win, and a match without a winner among the two.
C5_Witness ==
    /\ Shown
    /\ view.team1 # view.team2
    /\ view.h2h.total >= 2
    /\ view.h2h.t1_wins >= 1
    /\ view.h2h.ties >= 1

\* The blocks of the page below the head-to-head block and the leaderboards.
RestOfPage ==
    {"pvp", "thriller", "top_batsmen", "top_bowlers", "top_mom", "top_batsmen_10",
     "most_sixes", "top_wickets", "dot_bowlers"}

\* C6: with the same team selected twice the head-to-head block is a warning
\* and holds no total and no win counts; with two different teams it holds the
\* record and no warning; the rest of the page is computed in both cases.
C6_SameTeamWarning ==
    Shown =>
        /\ view.team1 = view.team2 =>
              view.h2h.warning /\ DOMAIN view.h2h = {"warning"}
        /\ view.team1 # view.team2 =>
              /\ ~view.h2h.warning
              /\ DOMAIN view.h2h = {"warning", "total", "t1_wins", "t2_wins", "ties"}
        /\ RestOfPage \subseteq DOMAIN view

\* C6 witness: a team is selected on both sides although it has played
\* another team.
C6_Witness ==
    /\ Shown
    /\ view.team1 = view.team2
    /\ view.team1 # NaN
    /\ view.h2h.warning
    /\ \E i \in DOMAIN matches_df :
          matches_df[i].team1 = view.team1 /\ matches_df[i].team2 # view.team1

\* The teams of the match table, in either column.
TeamsOfMatches ==
    ({matches_df[i].team1 : i \in DOMAIN matches_df}
        \cup {matches_df[i].team2 : i \in DOMAIN matches_df}) \ {NaN}

\* C10: the teams offered for Team A and Team B are the distinct non-null
\* teams of the whole match table, whether listed as team1 or as team2, in
\* ascending order, whatever season is selected.
C10_TeamsOffered ==
    Shown =>
        /\ Range(view.teams) = TeamsOfMatches
        /\ Len(view.teams) = Cardinality(TeamsOfMatches)
        /\ \A i, j \in DOMAIN view.teams : i < j => view.teams[i] < view.teams[j]

\* The deliveries of the selected season: those of a match of that season.
InSeason ==
    {i \in DOMAIN deliveries_df :
        \E j \in DOMAIN matches_df :
            /\ matches_df[j].id = deliveries_df[i].match_id
            /\ matches_df[j].season = view.selected_season}

\* The wickets credited to bowler b in the selected season.
Wickets(b) ==
    Cardinality({i \in InSeason :
        /\ deliveries_df[i].bowler = b
        /\ deliveries_df[i].dismissal_kind # NaNText
        /\ deliveries_df[i].dismissal_kind \notin
              {"run out", "retired hurt", "obstructing the field"}})

\* The bowlers named in the deliveries table.
Bowlers == {deliveries_df[i].bowler : i \in DOMAIN deliveries_df} \ {NaN}

\* C2: every wicket count shown (Purple Cap top 5 and Top Wicket Takers top
\* 10) is the number of season deliveries of that bowler with a dismissal kind
\* that is neither missing nor one of run out, retired hurt, obstructing the
\* field; a bowler with such a wicket is listed while the list has room, and a
\* bowler without one is not listed.
C2_WicketCounts ==
    Shown =>
        /\ \A i \in DOMAIN view.top_bowlers :
              view.top_bowlers[i][2] = Wickets(view.top_bowlers[i][1])
        /\ \A i \in DOMAIN view.top_wickets :
              view.top_wickets[i][2] = Wickets(view.top_wickets[i][1])
        /\ \A i \in DOMAIN view.top_wickets : view.top_wickets[i][2] > 0
        /\ Cardinality({b \in Bowlers : Wickets(b) > 0}) <= 5 =>
              \A b \in Bowlers : Wickets(b) > 0 =>
                  /\ \E i \in DOMAIN view.top_bowlers : view.top_bowlers[i][1] = b
                  /\ \E i \in DOMAIN view.top_wickets : view.top_wickets[i][1] = b

\* C2 witness: a bowler is shown with one wicket although two of the
\* season's deliveries bowled by them carry a dismissal, one of them a run out.
C2_Witness ==
    /\ Shown
    /\ \E i \in DOMAIN view.top_wickets :
          /\ view.top_wickets[i][2] = 1
          /\ \E j \in InSeason :
                /\ deliveries_df[j].bowler = view.top_wickets[i][1]
                /\ deliveries_df[j].dismissal_kind = "run out"

\* The deliveries of the selected season bowled by the selected bowler to the
\* selected batsman.
Faced ==
    {i \in InSeason : /\ deliveries_df[i].batter = view.selected_batsman
                      /\ deliveries_df[i].bowler = view.selected_bowler}

RECURSIVE RunsOf(_)
\* The batsman's runs on a set of deliveries.
RunsOf(I) ==
    IF I = {} THEN 0
    ELSE LET i == CHOOSE x \in I : TRUE
         IN  deliveries_df[i].batsman_runs + RunsOf(I \ {i})

\* Whether h hundredths is runs / balls * 100 rounded to two decimals: no
\* other hundredth is nearer, and of two equally near ones h is the even one.
IsRounded(h, runs, balls) ==
    LET err == h * balls - runs * 10000
        abs == IF err < 0 THEN 0 - err ELSE err
    IN  2 * abs < balls \/ (2 * abs = balls /\ h % 2 = 0)

\* The strike rate the page reports, NaN when it reports none.
ReportedStrikeRate ==
    IF "strike_rate" \in DOMAIN view.pvp THEN view.pvp.strike_rate ELSE NaN

\* The original statement of C7: for every selected batsman and bowler the
\* strike rate is reported, as the rounded rate when balls > 0 and as 0 when
\* balls = 0.
C7_ZeroWhenNoBalls ==
    (Shown /\ view.selected_batsman # NaN /\ view.selected_bowler # NaN) =>
        LET balls == Cardinality(Faced)
        IN  IF balls > 0
            THEN IsRounded(ReportedStrikeRate, RunsOf(Faced), balls)
            ELSE ReportedStrikeRate = 0

\* C7 (amended): when balls > 0 the reported strike rate is
\* round(runs / balls * 100, 2), runs and balls being the sum of batsman_runs
\* and the number of the season's deliveries of the selected pair (4 balls
\* for 6 runs give 150.00, 2 balls for 5 runs give 250.00); when balls = 0 the
\* no-data warning is shown and no strike rate is reported; no division by
\* zero occurs.
C7_StrikeRate ==
    Shown =>
        LET balls == Cardinality(Faced)
            runs == RunsOf(Faced)
        IN  IF balls > 0
            THEN /\ ~view.pvp.warning
                 /\ view.pvp.balls = balls
                 /\ view.pvp.runs = runs
                 /\ IsRounded(view.pvp.strike_rate, runs, balls)
                 /\ (balls = 4 /\ runs = 6) => view.pvp.strike_rate = 15000
                 /\ (balls = 2 /\ runs = 5) => view.pvp.strike_rate = 25000
            ELSE view.pvp.warning /\ DOMAIN view.pvp = {"warning"}

\* C7 witness: the selected pair met for 4 balls and 6 runs, and 150.00 is
\* reported.
C7_Witness ==
    /\ Shown
    /\ ~view.pvp.warning
    /\ view.pvp.balls = 4
    /\ view.pvp.runs = 6
    /\ view.pvp.strike_rate = 15000

\* The matches of the selected season with a normal result.
Normal ==
    {i \in DOMAIN matches_df : /\ matches_df[i].season = view.selected_season
                               /\ matches_df[i].result = "normal"}

\* C8: the thriller shown is a match of the selected season with a normal
\* result such that no other such match has a strictly smaller margin; when
\* the season has no match with a normal result, the notice is shown and no
\* match is selected.
C8_Thriller ==
    Shown =>
        IF Normal = {}
        THEN ~view.thriller.found /\ DOMAIN view.thriller = {"found"}
        ELSE /\ view.thriller.found
             /\ \E i \in Normal : matches_df[i] = view.thriller.match
             /\ \A i \in Normal :
                   matches_df[i].result_margin # NaN =>
                       /\ view.thriller.match.result_margin # NaN
                       /\ view.thriller.match.result_margin
                             <= matches_df[i].result_margin

\* C8 witness: the season's normal results have the margins 5, 2 and 9, in
\* this order, and the match with margin 2 is shown.
C8_Witness ==
    /\ Shown
    /\ Len(view.season_matches) = 3
    /\ Column(view.season_matches, "result") = <<"normal", "normal", "normal">>
    /\ Column(view.season_matches, "result_margin") = <<5, 2, 9>>
    /\ view.thriller.found
    /\ view.thriller.match.result_margin = 2

\* The aggregates of a player over the selected season.
RunsBy(p) == RunsOf({i \in InSeason : deliveries_df[i].batter = p})

SixesBy(p) ==
    Cardinality({i \in InSeason : /\ deliveries_df[i].batter = p
                                  /\ deliveries_df[i].batsman_runs = 6})

DotBallsBy(b) ==
    Cardinality({i \in InSeason : /\ deliveries_df[i].bowler = b
                                  /\ deliveries_df[i].total_runs = 0})

AwardsTo(p) ==
    Cardinality({j \in DOMAIN matches_df :
        /\ matches_df[j].season = view.selected_season
        /\ matches_df[j].player_of_match = p})

\* The players the season's tables name in a column.
SeasonBatters == {deliveries_df[i].batter : i \in InSeason} \ {NaN}
SeasonBowlers == {deliveries_df[i].bowler : i \in InSeason} \ {NaN}
SeasonAwarded ==
    {matches_df[j].player_of_match : j \in
        {k \in DOMAIN matches_df : matches_df[k].season = view.selected_season}} \ {NaN}

\* Whether list is a top-n ranking of players by Agg: at most n entries, in
\* non-increasing order of Agg, and no player left out has a larger Agg
\* than a player in it.
IsTopN(list, n, Agg(_), players) ==
    LET listed == {list[i][1] : i \in DOMAIN list}
    IN  /\ Len(list) <= n
        /\ \A i, j \in DOMAIN list : i < j => Agg(list[i][1]) >= Agg(list[j][1])
        /\ \A p \in players \ listed : \A q \in listed : Agg(p) <= Agg(q)

\* C3: each of the seven rankings has at most N entries (5 or 10), is in
\* non-increasing order of its aggregate, and leaves out no player whose
\* aggregate is larger than that of a player it lists.
C3_TopN ==
    Shown =>
        /\ IsTopN(view.top_batsmen, 5, RunsBy, SeasonBatters)
        /\ IsTopN(view.top_bowlers, 5, Wickets, SeasonBowlers)
        /\ IsTopN(view.top_mom, 5, AwardsTo, SeasonAwarded)
        /\ IsTopN(view.top_batsmen_10, 10, RunsBy, SeasonBatters)
        /\ IsTopN(view.most_sixes, 10, SixesBy, SeasonBatters)
        /\ IsTopN(view.top_wickets, 10, Wickets, SeasonBowlers)
        /\ IsTopN(view.dot_bowlers, 10, DotBallsBy, SeasonBowlers)

\* C3 witness: more than ten batters have scored, the top ten are listed,
\* and the first of them has more runs than the last.
C3_Witness ==
    /\ Shown
    /\ Cardinality(SeasonBatters) > 10
    /\ Len(view.top_batsmen_10) = 10
    /\ Len(view.top_batsmen) = 5
    /\ view.top_batsmen_10[1][2] > view.top_batsmen_10[10][2]

====
